---- MODULE Spec2Model ----
(***************************************************************************)
(* Port-resolution policy of options.go, in its four idioms: the           *)
(* procedural NewServer(addr, *int), the config-struct NewServer, the      *)
(* ConfigBuilder and the functional options.                               *)
(*                                                                         *)
(* A Go *int is modelled as a sequence of length at most one: << >> is nil *)
(* and <<v>> points at a cell holding v.  No statement of the source       *)
(* writes through a *int, so the cell is represented by its value.  A     *)
(* dereference of nil is the runtime panic of the Go build; a call's       *)
(* outcome records it.  The four functions called NewServer are told       *)
(* apart by a suffix naming their idiom.  Two expressions of the source do *)
(* not type-check as written and are read the only way their context       *)
(* allows: strconv.Itoa(cfg.Port) (line 76) as Itoa of the pointed-to int, *)
(* and the builder's Config (field "Post int", line 100) as the struct     *)
(* with the *int field Port that build (line 124) and NewServer (line 131) *)
(* use.                                                                    *)
(***************************************************************************)
EXTENDS Integers, Sequences, FiniteSets, TLC

\* ---------------------------------------------------------------- bounds
\* requested ports range over -MaxAbs..MaxAbs and a few large values
MaxAbs == 2
\* longest list of Options handed to NewServer
MaxOpts == 2

PortValues == (-MaxAbs .. MaxAbs) \cup {80, 8080, 65535, 65536, 70000}

\* a *int: nil or a pointer to a cell holding v
NilPtr == << >>
PtrTo(v) == <<v>>
Deref(p) == p[1]
PortSpecs == {NilPtr} \cup {PtrTo(v) : v \in PortValues}

\* addr strings, as sequences of characters
Addrs == { <<"l","o","c","a","l","h","o","s","t">>, << >> }

\* ----------------------------------------------------------- strconv.Itoa
DigitChar(d) == <<"0","1","2","3","4","5","6","7","8","9">>[d + 1]

RECURSIVE Digits(_)
Digits(n) == IF n < 10 THEN <<DigitChar(n)>>
             ELSE Digits(n \div 10) \o <<DigitChar(n % 10)>>

Itoa(n) == IF n < 0 THEN <<"-">> \o Digits(-n) ELSE Digits(n)

\* --------------------------------------------------------------- outcomes
ErrNegative == "port cannot be negative"
NoErr == ""

\* return &http.Server{Addr: a}, nil
ReturnServer(a) == [panic |-> FALSE, server |-> <<[Addr |-> a]>>, err |-> NoErr]
\* return nil, errors.New(msg)
ReturnError(msg) == [panic |-> FALSE, server |-> << >>, err |-> msg]
\* nil pointer dereference: the call does not return
Panic == [panic |-> TRUE, server |-> << >>, err |-> NoErr]

\* ------------------------------------------------- procedural pattern
\* variant: the sign test off by one, so -1 is let through
NewServerProcedural_off(addr, port) ==
    IF port = NilPtr THEN Panic
    ELSE IF Deref(port) < -1 THEN ReturnError(ErrNegative)
    ELSE ReturnServer(addr \o <<":">> \o Itoa(Deref(port)))

NewServerProcedural(addr, port) ==
    IF port = NilPtr THEN Panic                      \* *port at line 29
    ELSE IF Deref(port) < 0 THEN ReturnError(ErrNegative)
    ELSE ReturnServer(addr \o <<":">> \o Itoa(Deref(port)))

\* ------------------------------------------------ config struct pattern
\* variant: the sign test written <=, so 0 is rejected
NewServerConfig_le(addr, cfg) ==
    IF cfg.Port = NilPtr THEN Panic
    ELSE IF Deref(cfg.Port) <= 0 THEN ReturnError(ErrNegative)
    ELSE ReturnServer(addr \o <<":">> \o Itoa(Deref(cfg.Port)))

NewServerConfig(addr, cfg) ==
    IF cfg.Port = NilPtr THEN Panic                  \* *cfg.Port at line 68
    ELSE IF Deref(cfg.Port) < 0 THEN ReturnError(ErrNegative)
    ELSE ReturnServer(addr \o <<":">> \o Itoa(Deref(cfg.Port)))

\* ------------------------------------------------------ builder pattern
\* ConfigBuilder{} and Config{}
EmptyBuilder == [port |-> NilPtr]
ZeroConfig == [Port |-> NilPtr]

\* variant: Port validates, and drops a negative argument
Port_checked(b, port) == IF port < 0 THEN b ELSE [b EXCEPT !.port = PtrTo(port)]

\* b.port = &port; return b
Port(b, port) == [b EXCEPT !.port = PtrTo(port)]

\* variant: a successful build clears the builder
build_consume(b) ==
    IF b.port = NilPtr
    THEN [b |-> b, panic |-> TRUE, cfg |-> ZeroConfig, err |-> NoErr]
    ELSE IF Deref(b.port) < 0
    THEN [b |-> b, panic |-> FALSE, cfg |-> ZeroConfig, err |-> ErrNegative]
    ELSE [b |-> EmptyBuilder, panic |-> FALSE, cfg |-> [Port |-> b.port], err |-> NoErr]

\* the builder after the call, and what the call returns
build(b) ==
    IF b.port = NilPtr                               \* *b.port at line 118
    THEN [b |-> b, panic |-> TRUE, cfg |-> ZeroConfig, err |-> NoErr]
    ELSE IF Deref(b.port) < 0
    THEN [b |-> b, panic |-> FALSE, cfg |-> ZeroConfig, err |-> ErrNegative]
    ELSE [b |-> b, panic |-> FALSE, cfg |-> [Port |-> b.port], err |-> NoErr]

NewServerBuilder(addr, cfg) ==
    IF cfg.Port = NilPtr THEN Panic                  \* *cfg.Port at line 131
    ELSE ReturnServer(addr \o <<":">> \o Itoa(Deref(cfg.Port)))

\* --------------------------------------------- functional options pattern
\* var options options
ZeroOptions == [port |-> NilPtr]

\* WithPort(port): the closure, represented by the variable it captures
WithPort(port) == [port |-> port]

\* variant: the assignment made before the sign test
OptionCall_late(opt, options) ==
    IF opt.port < 0
    THEN [options |-> [options EXCEPT !.port = PtrTo(opt.port)], err |-> ErrNegative]
    ELSE [options |-> [options EXCEPT !.port = PtrTo(opt.port)], err |-> NoErr]

\* opt(&options): the options after the call, and the error returned
OptionCall(opt, options) ==
    IF opt.port < 0
    THEN [options |-> options, err |-> ErrNegative]
    ELSE [options |-> [options EXCEPT !.port = PtrTo(opt.port)], err |-> NoErr]

\* variant: the zero test inverted
NewServerOptionsTail_swap(addr, options) ==
    IF options.port = NilPtr THEN Panic
    ELSE ReturnServer(addr \o <<":">> \o
             Itoa(IF Deref(options.port) # 0 THEN 0 ELSE Deref(options.port)))

\* lines 175-185: what NewServer does once every option has been applied
NewServerOptionsTail(addr, options) ==
    IF options.port = NilPtr THEN Panic              \* *options.port at line 179
    ELSE ReturnServer(addr \o <<":">> \o
             Itoa(IF Deref(options.port) = 0 THEN 0 ELSE Deref(options.port)))

\* ------------------------------------------------------------------ state
VARIABLES
    addr,      \* the addr argument of every call
    port,      \* the caller's port *int; Config{Port: port} in the struct idiom
    res1,      \* last return of the procedural NewServer, with its argument
    res2,      \* last return of the config-struct NewServer, with its argument
    b,         \* the caller's ConfigBuilder
    asked,     \* the argument of the last builder.Port call, nil if there was none
    built,     \* last return of b.build(), with the builder before and after
    res3,      \* last return of the builder idiom's NewServer, with its cfg
    opts,      \* the Options handed to the variadic NewServer
    pc,        \* position of the variadic NewServer: "idle", "loop", "done"
    i,         \* index of the next option in the range loop
    options,   \* NewServer's local options struct
    applied,   \* the indices of the options the loop has called
    res4       \* last return of the variadic NewServer, with its opts

vars == <<addr, port, res1, res2, b, asked, built, res3, opts, pc, i, options, applied, res4>>

\* ---------------------------------------------------------------- actions
\* s, err := NewServer(addr, p)
CallProcedural(p) ==
    /\ res1' = <<[req |-> p, out |-> NewServerProcedural(addr, p)]>>
    /\ UNCHANGED <<addr, port, res2, b, asked, built, res3, opts, pc, i, options, applied, res4>>

\* c := Config{Port: p}; s, err := NewServer(addr, &c)
CallConfig(p) ==
    /\ res2' = <<[req |-> p, out |-> NewServerConfig(addr, [Port |-> p])]>>
    /\ UNCHANGED <<addr, port, res1, b, asked, built, res3, opts, pc, i, options, applied, res4>>

\* builder := ConfigBuilder{}
NewBuilder ==
    /\ b' = EmptyBuilder
    /\ asked' = NilPtr
    /\ UNCHANGED <<addr, port, res1, res2, built, res3, opts, pc, i, options, applied, res4>>

\* builder.Port(v)
CallPort(v) ==
    /\ b' = Port(b, v)
    /\ asked' = PtrTo(v)
    /\ UNCHANGED <<addr, port, res1, res2, built, res3, opts, pc, i, options, applied, res4>>

\* cfg, err := builder.build()
CallBuild ==
    /\ b' = build(b).b
    /\ built' = <<[req |-> asked, before |-> b, after |-> build(b).b, panic |-> build(b).panic,
                   cfg |-> build(b).cfg, err |-> build(b).err]>>
    /\ UNCHANGED <<addr, port, res1, res2, asked, res3, opts, pc, i, options, applied, res4>>

\* s, err := NewServer(addr, cfg) with the cfg build returned; main calls it
\* whether or not build reported an error
CallNewServerBuilder ==
    /\ built # << >>
    /\ ~built[1].panic
    /\ res3' = <<[req |-> built[1].req, cfg |-> built[1].cfg, builderr |-> built[1].err,
                  out |-> NewServerBuilder(addr, built[1].cfg)]>>
    /\ UNCHANGED <<addr, port, res1, res2, b, asked, built, opts, pc, i, options, applied, res4>>

\* the caller writes the argument list of the next NewServer(addr, opts...)
Arguments(l) ==
    /\ pc # "loop"
    /\ opts' = l
    /\ UNCHANGED <<addr, port, res1, res2, b, asked, built, res3, pc, i, options, applied, res4>>

\* NewServer(addr, opts...) is entered: var options options
OptionsEnter ==
    /\ pc \in {"idle", "done"}
    /\ pc' = "loop"
    /\ i' = 1
    /\ options' = ZeroOptions
    /\ applied' = {}
    /\ UNCHANGED <<addr, port, res1, res2, b, asked, built, res3, opts, res4>>

\* variant: the loop ignores the error an option returns
OptionsLoop_goon ==
    /\ pc = "loop"
    /\ i <= Len(opts)
    /\ options' = OptionCall(opts[i], options).options
    /\ applied' = applied \cup {i}
    /\ i' = i + 1
    /\ pc' = "loop"
    /\ UNCHANGED res4
    /\ UNCHANGED <<addr, port, res1, res2, b, asked, built, res3, opts>>

\* one iteration of the range loop, lines 168-173
OptionsLoop ==
    /\ pc = "loop"
    /\ i <= Len(opts)
    /\ options' = OptionCall(opts[i], options).options
    /\ applied' = applied \cup {i}
    /\ IF OptionCall(opts[i], options).err # NoErr
       THEN /\ res4' = <<[req |-> opts,
                          out |-> ReturnError(OptionCall(opts[i], options).err)]>>
            /\ pc' = "done"
            /\ i' = i
       ELSE /\ i' = i + 1
            /\ pc' = "loop"
            /\ UNCHANGED res4
    /\ UNCHANGED <<addr, port, res1, res2, b, asked, built, res3, opts>>

\* the loop is over: lines 175-185
OptionsReturn ==
    /\ pc = "loop"
    /\ i > Len(opts)
    /\ res4' = <<[req |-> opts,
                  out |-> NewServerOptionsTail(addr, options)]>>
    /\ pc' = "done"
    /\ UNCHANGED <<addr, port, res1, res2, b, asked, built, res3, opts, i, options, applied>>

\* --------------------------------------------------------- specifications
Fresh ==
    /\ res1 = << >> /\ res2 = << >>
    /\ b = EmptyBuilder /\ asked = NilPtr /\ built = << >> /\ res3 = << >>
    /\ pc = "idle" /\ i = 1 /\ options = ZeroOptions /\ applied = {} /\ res4 = << >>

\* The caller has one port in mind, and gives each of the four idioms either
\* that port or none.
Init ==
    /\ addr \in Addrs
    /\ port \in PortSpecs
    /\ opts = << >>
    /\ Fresh

Requests == {NilPtr, port}

\* the argument list that asks for p: none, or WithPort(*p)
OptionsFor(p) == IF p = NilPtr THEN << >> ELSE <<WithPort(Deref(p))>>

Procedural == \E p \in Requests : CallProcedural(p)

ConfigStruct == \E p \in Requests : CallConfig(p)

BuilderPortRequested ==
    /\ port # NilPtr
    /\ CallPort(Deref(port))

OptionsRequested == \E p \in Requests : Arguments(OptionsFor(p))

Next ==
    \/ Procedural
    \/ ConfigStruct
    \/ NewBuilder
    \/ BuilderPortRequested
    \/ CallBuild
    \/ CallNewServerBuilder
    \/ OptionsRequested
    \/ OptionsEnter
    \/ OptionsLoop
    \/ OptionsReturn

Spec == Init /\ [][Next]_vars

\* The builder idiom alone, with any sequence of Port and build calls.
InitBuilder ==
    /\ addr \in Addrs
    /\ port = NilPtr
    /\ opts = << >>
    /\ Fresh

BuilderPortAny == \E v \in PortValues : CallPort(v)

NextBuilder ==
    \/ NewBuilder
    \/ BuilderPortAny
    \/ CallBuild
    \/ CallNewServerBuilder

SpecBuilder == InitBuilder /\ [][NextBuilder]_vars

\* The functional options alone, with any list of at most MaxOpts options.
RECURSIVE OptionLists(_)
OptionLists(n) ==
    IF n = 0 THEN { << >> }
    ELSE OptionLists(n - 1) \cup
         { Append(l, WithPort(v)) : l \in OptionLists(n - 1), v \in PortValues }

InitOptions ==
    /\ addr \in Addrs
    /\ port = NilPtr
    /\ opts \in OptionLists(MaxOpts)
    /\ Fresh

NextOptions ==
    \/ OptionsEnter
    \/ OptionsLoop
    \/ OptionsReturn

SpecOptions == InitOptions /\ [][NextOptions]_vars

\* ------------------------------------------------------------ observations
Range(s) == { s[k] : k \in 1 .. Len(s) }

DigitChars == { DigitChar(d) : d \in 0 .. 9 }
DigitVal(c) == CHOOSE d \in 0 .. 9 : DigitChar(d) = c

\* the number a decimal numeral denotes
RECURSIVE Atoi(_)
Atoi(s) == IF Len(s) = 0 THEN 0
           ELSE 10 * Atoi(SubSeq(s, 1, Len(s) - 1)) + DigitVal(s[Len(s)])

IsNumeral(s) ==
    /\ Len(s) > 0
    /\ \A k \in 1 .. Len(s) : s[k] \in DigitChars
    /\ Len(s) > 1 => s[1] # "0"

\* the call returned a server, and no error, whose Addr is addr ":" decimal v
ServesOn(out, v) ==
    /\ ~out.panic
    /\ out.err = NoErr
    /\ Len(out.server) = 1
    /\ LET a == out.server[1].Addr
           n == Len(addr)
       IN /\ Len(a) > n + 1
          /\ SubSeq(a, 1, n) = addr
          /\ a[n + 1] = ":"
          /\ IsNumeral(SubSeq(a, n + 2, Len(a)))
          /\ Atoi(SubSeq(a, n + 2, Len(a))) = v

\* the call returned nil and the error "port cannot be negative"
FailsNegative(out) ==
    /\ ~out.panic
    /\ out.err = "port cannot be negative"
    /\ out.server = << >>

IsNegative(p) == p # NilPtr /\ Deref(p) < 0
IsZero(p) == p # NilPtr /\ Deref(p) = 0
IsPositive(p) == p # NilPtr /\ Deref(p) > 0

\* the port an argument list of at most one option asks for
AskedBy(l) == IF l = << >> THEN NilPtr ELSE PtrTo(l[1].port)

\* What each idiom last made of a requested port.  The builder idiom's outcome
\* is build's when build panics or reports an error, and NewServer's otherwise.
Outcomes ==
    { [idiom |-> 1, req |-> r.req, out |-> r.out] : r \in Range(res1) }
    \cup { [idiom |-> 2, req |-> r.req, out |-> r.out] : r \in Range(res2) }
    \cup { [idiom |-> 3, req |-> r.req,
            out |-> [panic |-> r.panic, server |-> << >>, err |-> r.err]] :
           r \in { x \in Range(built) : x.panic \/ x.err # NoErr } }
    \cup { [idiom |-> 3, req |-> r.req, out |-> r.out] :
           r \in { x \in Range(res3) : x.builderr = NoErr } }
    \cup { [idiom |-> 4, req |-> AskedBy(r.req), out |-> r.out] :
           r \in { x \in Range(res4) : Len(x.req) <= 1 } }

IdiomsWith(P(_)) == { o.idiom : o \in { x \in Outcomes : P(x.req) } }

\* ------------------------------------------------------------------ claims
\* C1: when no port is requested, every idiom returns a server on the default
\* port 8080 and no error.
C1_AbsentGivesDefault ==
    \A o \in Outcomes : o.req = NilPtr => ServesOn(o.out, 8080)

\* C2: a negative requested port makes every idiom fail with the error
\* "port cannot be negative" and no server; build returns the zero Config.
C2_NegativeIsError ==
    /\ \A o \in Outcomes : IsNegative(o.req) => FailsNegative(o.out)
    /\ \A r \in Range(built) :
           IsNegative(r.req) => ~r.panic /\ r.err = ErrNegative /\ r.cfg = ZeroConfig

C2_Witness == IdiomsWith(IsNegative) = 1 .. 4

C4_PositiveIsVerbatim ==
    \A o \in Outcomes : IsPositive(o.req) => ServesOn(o.out, Deref(o.req))

C4_Witness == IdiomsWith(LAMBDA p : p # NilPtr /\ Deref(p) > 65535) = 1 .. 4

\* C5: every request ends in a server or in the error, never in a crash, and
\* it ends in the error exactly when the port is present and negative.
C5_OnlyNegativeFails ==
    \A o \in Outcomes :
        /\ ~o.out.panic
        /\ FailsNegative(o.out) <=> IsNegative(o.req)
        /\ ~FailsNegative(o.out) => \E v \in PortValues \cup {8080} : ServesOn(o.out, v)

Failing == { k \in 1 .. Len(opts) : opts[k].port < 0 }
FirstFailing == CHOOSE k \in Failing : \A j \in Failing : k <= j

C8_StopsAtFirstError ==
    /\ applied = 1 .. Cardinality(applied)
    /\ Failing # {} => applied \subseteq 1 .. FirstFailing
    /\ pc = "done" =>
           /\ res4[1].req = opts
           /\ IF Failing # {}
              THEN /\ FailsNegative(res4[1].out)
                   /\ applied = 1 .. FirstFailing
              ELSE /\ applied = 1 .. Len(opts)
                   /\ Len(opts) > 0 => ServesOn(res4[1].out, opts[Len(opts)].port)

C8_Witness ==
    /\ pc = "done"
    /\ Failing # {}
    /\ FirstFailing < Len(opts)
    /\ FailsNegative(res4[1].out)

\* C9: applying WithPort(v) with v < 0 leaves options as it was and returns
\* the error; with v >= 0 it sets options.port to v and returns no error.
C9_WithPortFrame ==
    [][ (pc = "loop" /\ i <= Len(opts)) =>
            IF opts[i].port < 0
            THEN /\ options' = options
                 /\ pc' = "done"
                 /\ FailsNegative(res4'[1].out)
            ELSE /\ options' = [port |-> PtrTo(opts[i].port)]
                 /\ pc' = "loop"
                 /\ res4' = res4
      ]_vars

C9_Witness ==
    /\ pc = "done"
    /\ FailsNegative(res4[1].out)
    /\ options.port # NilPtr

\* C10: the four idioms follow one policy: the default port for an absent
\* port, the error for a negative one, port 0 for zero, the given port for a
\* positive one.
C10_SamePolicy ==
    /\ \A o1 \in Outcomes : \A o2 \in Outcomes : o1.req = o2.req => o1.out = o2.out
    /\ \A o \in Outcomes :
           IF o.req = NilPtr THEN ServesOn(o.out, 8080)
           ELSE IF Deref(o.req) < 0 THEN FailsNegative(o.out)
           ELSE ServesOn(o.out, Deref(o.req))

====
